---- MODULE Spec2Model ----
(***************************************************************************)
(* Smart Research Assistant (src/app.py): a Streamlit script that is run   *)
(* from top to bottom on every user interaction.  The state that survives  *)
(* a run is the session state (questions, user_answers), the values of the *)
(* widgets that the run rendered, and the uploaded file.                   *)
(*                                                                         *)
(* Document texts are run-length encoded: a text is a sequence of runs     *)
(* [k, n], n >= 1 characters of kind k, adjacent runs of different kinds:  *)
(*   "w" non-whitespace characters (no hyphens), "s" spaces,               *)
(*   "n" newlines, "t" tabs.                                               *)
(* Short strings (typed answers, the typed question, generated text) are   *)
(* sequences of characters.                                                *)
(*                                                                         *)
(* Streamlit: a button is TRUE only in the run its click triggers; a       *)
(* keyed text input returns the value its widget holds, which survives     *)
(* from run to run while the widget keeps being rendered; an uncaught      *)
(* exception ends the run at the raising statement.                        *)
(***************************************************************************)
EXTENDS Integers, Sequences, FiniteSets, TLC

VARIABLES
    uploaded_file,     \* the file held by the uploader widget, or NoFile
    document_text,     \* script global of the last run
    text_chunks,       \* split_text(document_text) of the last run
    summCalls,         \* chunks passed to summarizer in the last run, in call order
    combined_summary,  \* [label, chunk] entries accumulated in the last run
    summary_shown,     \* TRUE iff the last run wrote the aggregated summary
    question,          \* value of the "Ask your question" text input
    qaCalls,           \* qa_pipeline calls of the last run, in call order
    genCalls,          \* prompts passed to question_generator in the last run
    output,            \* <<generated text>> of the last run, <<>> if none was generated
    initialized,       \* "questions" in st.session_state
    questions,         \* st.session_state.questions
    user_answers,      \* st.session_state.user_answers
    ans_widget,        \* values of the text inputs keyed ans_0, ans_1, ans_2
    askOffered,        \* the last run rendered the Get Answer button
    genOffered,        \* the last run rendered the Generate Questions button
    ansShown,          \* number of answer inputs the last run rendered
    evalOffered,       \* the last run rendered the Evaluate Answers button
    aborted,           \* "none", or the step whose uncaught exception ended the last run
    quiz_source        \* history: document_text of the run that generated the questions

vars == <<uploaded_file, document_text, text_chunks, summCalls, combined_summary,
          summary_shown, question, qaCalls, genCalls, output, initialized,
          questions, user_answers, ans_widget, askOffered, genOffered, ansShown,
          evalOffered, aborted, quiz_source>>

-----------------------------------------------------------------------------
(* Program constants *)

max_chars == 1000
ContextChars == 2000
PromptChars == 1000
MaxSummarized == 5
MaxQuestions == 3
TabSize == 8

(* Bounds of the model *)

MaxRuns == 3        \* runs per text in SpecChunk
MaxOutLen == 7      \* characters per generated text in SpecGen

Min(a, b) == IF a <= b THEN a ELSE b

-----------------------------------------------------------------------------
(* Run-length encoded texts *)

Run(k, n) == [k |-> k, n |-> n]

RECURSIVE TextLen(_)
TextLen(t) == IF t = <<>> THEN 0 ELSE Head(t).n + TextLen(Tail(t))

\* Canonical form: no empty run, no two adjacent runs of one kind.
RECURSIVE Norm(_)
Norm(t) ==
    IF t = <<>> THEN <<>>
    ELSE IF Head(t).n = 0 THEN Norm(Tail(t))
    ELSE LET rest == Norm(Tail(t)) IN
         IF rest # <<>> /\ Head(rest).k = Head(t).k
         THEN <<Run(Head(t).k, Head(t).n + Head(rest).n)>> \o Tail(rest)
         ELSE <<Head(t)>> \o rest

\* text[:m]
RECURSIVE Slice(_, _)
Slice(t, m) ==
    IF t = <<>> \/ m <= 0 THEN <<>>
    ELSE IF Head(t).n >= m THEN <<Run(Head(t).k, m)>>
    ELSE <<Head(t)>> \o Slice(Tail(t), m - Head(t).n)

-----------------------------------------------------------------------------
(* textwrap.wrap(text, width) with the defaults expand_tabs,              *)
(* replace_whitespace, drop_whitespace, break_long_words                   *)

\* TextWrapper._munge_whitespace: tabs expanded to the next multiple of
\* TabSize (the column restarts after a newline), then every whitespace
\* character replaced by a space.
RECURSIVE munge_whitespace(_, _)
munge_whitespace(t, col) ==
    IF t = <<>> THEN <<>>
    ELSE LET r == Head(t) IN
         CASE r.k = "t" ->
                <<Run("s", (TabSize - (col % TabSize)) + TabSize * (r.n - 1))>>
                    \o munge_whitespace(Tail(t), 0)
           [] r.k = "n" -> <<Run("s", r.n)>> \o munge_whitespace(Tail(t), 0)
           [] OTHER -> <<r>> \o munge_whitespace(Tail(t), (col + r.n) % TabSize)

\* TextWrapper._split: maximal words and maximal whitespace runs.
split_chunks(t) == Norm(munge_whitespace(t, 0))

\* chunk.strip() == ''
IsBlankChunk(c) == c.k = "s" \/ c.n = 0

\* The inner loop of _wrap_chunks: move chunks to the line while they fit.
\* Returns [line, len, rest].
RECURSIVE fill_line(_, _, _, _)
fill_line(chunks, cur_line, cur_len, width) ==
    IF chunks # <<>> /\ cur_len + Head(chunks).n <= width
    THEN fill_line(Tail(chunks), Append(cur_line, Head(chunks)),
                   cur_len + Head(chunks).n, width)
    ELSE [line |-> cur_line, len |-> cur_len, rest |-> chunks]

\* TextWrapper._handle_long_word with break_long_words
handle_long_word(f, width) ==
    LET space_left == width - f.len
        chunk == Head(f.rest)
    IN  [line |-> Append(f.line, Run(chunk.k, space_left)),
         rest |-> <<Run(chunk.k, chunk.n - space_left)>> \o Tail(f.rest)]

DropLast(s) == SubSeq(s, 1, Len(s) - 1)

\* TextWrapper._wrap_chunks
RECURSIVE wrap_chunks(_, _, _)
wrap_chunks(chunks, lines, width) ==
    IF chunks = <<>> THEN lines
    ELSE LET c0 == IF IsBlankChunk(Head(chunks)) /\ lines # <<>>
                   THEN Tail(chunks) ELSE chunks
             f  == fill_line(c0, <<>>, 0, width)
             g  == IF f.rest # <<>> /\ Head(f.rest).n > width
                   THEN handle_long_word(f, width)
                   ELSE [line |-> f.line, rest |-> f.rest]
             cur_line == IF g.line # <<>> /\ IsBlankChunk(g.line[Len(g.line)])
                         THEN DropLast(g.line) ELSE g.line
         IN  wrap_chunks(g.rest,
                         IF cur_line # <<>> THEN Append(lines, Norm(cur_line)) ELSE lines,
                         width)

wrap(text, width) == wrap_chunks(split_chunks(text), <<>>, width)

\* faulty variant: half the width
split_text_half(text, max_chars_) == wrap(text, max_chars_ \div 2)

split_text(text, max_chars_) == wrap(text, max_chars_)

-----------------------------------------------------------------------------
(* Character strings *)

Whitespace == {" ", "\n"}

RECURSIVE lstrip(_)
lstrip(s) == IF s # <<>> /\ Head(s) \in Whitespace THEN lstrip(Tail(s)) ELSE s

RECURSIVE rstrip(_)
rstrip(s) == IF s # <<>> /\ s[Len(s)] \in Whitespace THEN rstrip(DropLast(s)) ELSE s

\* str.strip()
strip(s) == rstrip(lstrip(s))

\* str.split('\n'); cur is the piece being read
RECURSIVE split_nl(_, _)
split_nl(s, cur) ==
    IF s = <<>> THEN <<cur>>
    ELSE IF Head(s) = "\n" THEN <<cur>> \o split_nl(Tail(s), <<>>)
    ELSE split_nl(Tail(s), Append(cur, Head(s)))

Truthy(s) == s # <<>>

Placeholder == <<"Unable to generate clear questions.">>

\* The parsing of the generated text in the Generate Questions handler
\* faulty variant: blank lines are kept
parse_questions_nofilter(out) ==
    LET lines == split_nl(strip(out), <<>>)
        stripped == [i \in 1..Len(lines) |-> strip(lines[i])]
        questions_only == IF stripped = <<>> THEN <<Placeholder>> ELSE stripped
    IN  SubSeq(questions_only, 1, Min(MaxQuestions, Len(questions_only)))

parse_questions(out) ==
    LET lines == split_nl(strip(out), <<>>)
        kept == SelectSeq(lines, LAMBDA q : Truthy(strip(q)))
        stripped == [i \in 1..Len(kept) |-> strip(kept[i])]
        questions_only == IF stripped = <<>> THEN <<Placeholder>> ELSE stripped
    IN  SubSeq(questions_only, 1, Min(MaxQuestions, Len(questions_only)))

\* [""] * len(questions)
\* faulty variant: always three slots
reset_answers_fixed(qs) == [i \in 1..MaxQuestions |-> <<>>]

reset_answers(qs) == [i \in 1..Len(qs) |-> <<>>]

\* document_text[:2000], the context of every qa_pipeline call
\* faulty variant: the 1000-character slice of the prompt
context_of_prompt(doc) == Slice(doc, PromptChars)

context_of(doc) == Slice(doc, ContextChars)

\* document_text[:1000], the part of the document put in the prompt
prompt_of(doc) == Slice(doc, PromptChars)

-----------------------------------------------------------------------------
(* Uploaded files *)

NoFile == [type |-> "none"]

File(type, text, ok) == [type |-> type, text |-> text, ok |-> ok]

\* extract_file_text: the text, or an exception (ok = FALSE: a PDF that
\* pdfminer rejects, bytes that are not UTF-8)
extract_fails(file) == file.type \in {"application/pdf", "text/plain"} /\ ~file.ok

\* faulty variant: the content is read whatever the type
extract_file_text_any(file) == file.text

extract_file_text(file) ==
    IF file.type = "application/pdf" THEN file.text
    ELSE IF file.type = "text/plain" THEN file.text
    ELSE <<>>

-----------------------------------------------------------------------------
(* Input sets *)

AnswerValues == {<<>>, <<" ">>, <<"a">>}
QuestionValues == {<<>>, <<"a">>}

ShortDoc == <<Run("w", 3), Run("s", 1), Run("w", 2)>>
EdgeDoc == <<Run("w", 1999), Run("s", 1), Run("w", 1)>>
LongDoc == <<Run("w", 2500), Run("n", 1), Run("w", 3500)>>

Files ==
    { File("application/json", <<Run("w", 3)>>, TRUE),
      File("text/plain", ShortDoc, TRUE),
      File("text/plain", <<Run("s", 2)>>, TRUE),
      File("application/pdf", LongDoc, TRUE),
      File("text/plain", EdgeDoc, TRUE),
      File("text/plain", <<Run("w", 1)>>, FALSE) }

GenOutputs ==
    { <<>>,
      <<"a", "\n", "b", "\n">>,
      <<"a", "\n", "\n", " ", "b", " ", "\n", "a", "\n", "b">> }

-----------------------------------------------------------------------------
(* One run of the script *)

\* text_chunks[:5]
\* faulty variant: no cap
first_chunks_all(chunks) == chunks

first_chunks(chunks) == SubSeq(chunks, 1, Min(MaxSummarized, Len(chunks)))

\* the ordinal f"{i+1}" of the entry with enumerate index i
summary_label(i) == i + 1

\* An exception raised by summarizer is not caught: the statements after
\* the loop (the write of the summary, the later sections) run only if no
\* call raised.
\* (faulty variant: the exception swallowed)
sections_continue_caught(hasDoc, sfail) == hasDoc

sections_continue(hasDoc, sfail) == hasDoc /\ ~sfail

\* if "questions" not in st.session_state: both lists start empty
\* (faulty variant: reset on every run)
init_quiz_always(inQuiz, qs, ua) ==
    IF inQuiz THEN [questions |-> <<>>, user_answers |-> <<>>]
    ELSE [questions |-> qs, user_answers |-> ua]

init_quiz(inQuiz, qs, ua) ==
    IF inQuiz /\ ~initialized THEN [questions |-> <<>>, user_answers |-> <<>>]
    ELSE [questions |-> qs, user_answers |-> ua]

\* The answer loop: user_answers[i] = st.text_input(key=f"ans_{i}") for
\* every i < n; the text input returns the value its widget holds.
capture_answers(ua, aw, n) ==
    [i \in 1..Len(ua) |-> IF i <= n THEN aw[i] ELSE ua[i]]

\* all(ans.strip() for ans in user_answers)
\* (faulty variant: no strip)
all_answered_nostrip(ua) == \A i \in 1..Len(ua) : Truthy(ua[i])

all_answered(ua) == \A i \in 1..Len(ua) : Truthy(strip(ua[i]))

\* One run.  file, qw, aw: the uploader's file and the widget values the
\* browser sends; clicked: the button pressed ("none" if none); genRes: what
\* question_generator returns, genRaises: it raises instead; summFail,
\* qaFail: the ordinal of the summarizer / qa_pipeline call that raises
\* (0: none does).  The conjuncts follow the script's order.
Rerun(file, qw, aw, clicked, genRes, genRaises, summFail, qaFail) ==
    /\ uploaded_file' = file
    \* Upload section
    /\ document_text' = IF file = NoFile \/ extract_fails(file) THEN <<>>
                        ELSE extract_file_text(file)
    \* Summary section
    /\ text_chunks' = IF Truthy(document_text')
                      THEN split_text(document_text', max_chars) ELSE <<>>
    /\ LET todo == first_chunks(text_chunks')
           sfail == summFail \in 1..Len(todo)
       IN  /\ summCalls' = IF sfail THEN SubSeq(todo, 1, summFail) ELSE todo
           /\ combined_summary' =
                 [i \in 1..(IF sfail THEN summFail - 1 ELSE Len(todo)) |->
                     [label |-> summary_label(i - 1), chunk |-> todo[i]]]
           /\ summary_shown' = sections_continue(Truthy(document_text'), sfail)
    \* Ask Anything section
    /\ askOffered' = summary_shown'
    /\ LET askCall == askOffered' /\ clicked = "ask" /\ Truthy(qw)
           askFail == askCall /\ qaFail = 1
       IN
       \* Challenge Me section
       /\ genOffered' = (askOffered' /\ ~askFail)
       /\ initialized' = (initialized \/ genOffered')
       /\ LET q0 == init_quiz(genOffered', questions, user_answers)
              genClick == genOffered' /\ clicked = "gen"
              genDone == genClick /\ ~genRaises
          IN
          /\ genCalls' = IF genClick THEN <<prompt_of(document_text')>> ELSE <<>>
          /\ output' = IF genDone THEN <<genRes>> ELSE <<>>
          /\ quiz_source' = IF genDone THEN document_text' ELSE quiz_source
          /\ questions' = IF genDone THEN parse_questions(genRes) ELSE q0.questions
          /\ LET ua1 == IF genDone THEN reset_answers(questions') ELSE q0.user_answers
                 inAnswers == genOffered' /\ (genClick => genDone) /\ Truthy(questions')
                 idxFail == inAnswers /\ Len(ua1) < Len(questions')
             IN
             /\ user_answers' =
                   IF inAnswers
                   THEN capture_answers(ua1, aw, Min(Len(questions'), Len(ua1)))
                   ELSE ua1
             /\ ansShown' = IF ~inAnswers THEN 0
                            ELSE IF idxFail THEN Len(ua1) + 1 ELSE Len(questions')
             /\ evalOffered' = (inAnswers /\ ~idxFail /\ all_answered(user_answers'))
             /\ LET evalClick == evalOffered' /\ clicked = "eval"
                    nEval == Min(Len(questions'), Len(user_answers'))
                    efail == evalClick /\ qaFail \in 1..nEval
                IN
                /\ qaCalls' =
                      IF askCall
                      THEN <<[kind |-> "ask", question |-> qw, answer |-> <<>>,
                              context |-> context_of(document_text')]>>
                      ELSE IF evalClick
                      THEN [i \in 1..(IF efail THEN qaFail ELSE nEval) |->
                              [kind |-> "eval", question |-> questions'[i],
                               answer |-> user_answers'[i],
                               context |-> context_of(document_text')]]
                      ELSE <<>>
                /\ aborted' =
                      CASE file # NoFile /\ extract_fails(file) -> "extract"
                        [] Len(summCalls') > Len(combined_summary') -> "summarize"
                        [] askFail -> "ask"
                        [] genClick /\ genRaises -> "generate"
                        [] idxFail -> "index"
                        [] efail -> "evaluate"
                        [] OTHER -> "none"
    \* a run that ends normally forgets the widgets it did not render; a run
    \* ended by an exception keeps every widget value
    /\ question' = IF aborted' # "none" \/ askOffered' THEN qw ELSE <<>>
    /\ ans_widget' = IF aborted' # "none" THEN aw
                     ELSE [i \in 1..MaxQuestions |->
                             IF i <= ansShown' THEN aw[i] ELSE <<>>]

\* number of summarizer calls a run on this file makes when none fails
NumSummarized(file) ==
    IF file = NoFile \/ extract_fails(file) THEN 0
    ELSE Len(first_chunks(split_text(extract_file_text(file), max_chars)))

\* the answer widget values the browser can send along with a click: the
\* current ones, or those with one shown input just edited
Typed == {ans_widget} \cup
         {[ans_widget EXCEPT ![i] = v] : i \in 1..ansShown, v \in AnswerValues}

-----------------------------------------------------------------------------
(* User interactions *)

Init ==
    /\ uploaded_file = NoFile
    /\ document_text = <<>>
    /\ text_chunks = <<>>
    /\ summCalls = <<>>
    /\ combined_summary = <<>>
    /\ summary_shown = FALSE
    /\ question = <<>>
    /\ qaCalls = <<>>
    /\ genCalls = <<>>
    /\ output = <<>>
    /\ initialized = FALSE
    /\ questions = <<>>
    /\ user_answers = <<>>
    /\ ans_widget = [i \in 1..MaxQuestions |-> <<>>]
    /\ askOffered = FALSE
    /\ genOffered = FALSE
    /\ ansShown = 0
    /\ evalOffered = FALSE
    /\ aborted = "none"
    /\ quiz_source = <<>>

Upload(f) ==
    \E sf \in 0..NumSummarized(f) :
        Rerun(f, question, ans_widget, "none", <<>>, FALSE, sf, 0)

Remove ==
    /\ uploaded_file # NoFile
    /\ Rerun(NoFile, question, ans_widget, "none", <<>>, FALSE, 0, 0)

EditQuestion(q) ==
    /\ askOffered
    /\ \E sf \in 0..Len(first_chunks(text_chunks)) :
        Rerun(uploaded_file, q, ans_widget, "none", <<>>, FALSE, sf, 0)

EditAnswer(i, v) ==
    /\ i <= ansShown
    /\ \E sf \in 0..Len(first_chunks(text_chunks)) :
        Rerun(uploaded_file, question,
              [ans_widget EXCEPT ![i] = v], "none", <<>>, FALSE, sf, 0)

GetAnswer(q) ==
    /\ askOffered
    /\ \E sf \in 0..Len(first_chunks(text_chunks)), qf \in 0..1 :
        Rerun(uploaded_file, q, ans_widget, "ask", <<>>, FALSE, sf, qf)

Generate(out, raises) ==
    /\ genOffered
    /\ \E sf \in 0..Len(first_chunks(text_chunks)) :
        Rerun(uploaded_file, question, ans_widget, "gen", out, raises, sf, 0)

Evaluate ==
    /\ evalOffered
    /\ \E aw \in Typed, sf \in 0..Len(first_chunks(text_chunks)),
          qf \in 0..MaxQuestions :
        Rerun(uploaded_file, question, aw, "eval", <<>>, FALSE, sf, qf)

Next ==
    \/ \E f \in Files : Upload(f)
    \/ Remove
    \/ \E q \in QuestionValues : EditQuestion(q)
    \/ \E i \in 1..MaxQuestions, v \in AnswerValues : EditAnswer(i, v)
    \/ \E q \in QuestionValues : GetAnswer(q)
    \/ \E out \in GenOutputs, raises \in BOOLEAN : Generate(out, raises)
    \/ Evaluate

Spec == Init /\ [][Next]_vars

-----------------------------------------------------------------------------
(* The chunker and the summary on every text of up to MaxRuns runs: one    *)
(* upload per session.                                                     *)

RunLens == {1, 998, 1000, 2500}
Kinds == {"w", "s", "n", "t"}
AllRuns == {Run(k, n) : k \in Kinds, n \in RunLens}

AllTexts ==
    UNION { {t \in [1..m -> AllRuns] : \A i \in 1..(m - 1) : t[i].k # t[i + 1].k}
            : m \in 1..MaxRuns }

NextChunk ==
    /\ uploaded_file = NoFile
    /\ \E t \in AllTexts : Upload(File("text/plain", t, TRUE))

SpecChunk == Init /\ [][NextChunk]_vars

-----------------------------------------------------------------------------
(* The Generate Questions handler on every generated text of up to         *)
(* MaxOutLen characters: one generation per session.                       *)

OutChars == {"a", "b", " ", "\n"}
AllOutputs == UNION { [1..m -> OutChars] : m \in 0..MaxOutLen }

NextGen ==
    \/ /\ uploaded_file = NoFile
       /\ Upload(File("text/plain", ShortDoc, TRUE))
    \/ /\ genCalls = <<>>
       /\ \E out \in AllOutputs, raises \in BOOLEAN : Generate(out, raises)

SpecGen == Init /\ [][NextGen]_vars

-----------------------------------------------------------------------------
(* Vocabulary of the properties, stated without the operators above *)

\* s has a character that is not whitespace
NonBlank(s) == \E i \in 1..Len(s) : s[i] \notin Whitespace

\* s with its leading and trailing whitespace removed (s is non-blank)
Trimmed(s) ==
    LET ink == {i \in 1..Len(s) : s[i] \notin Whitespace}
        lo == CHOOSE i \in ink : \A j \in ink : i <= j
        hi == CHOOSE i \in ink : \A j \in ink : j <= i
    IN  SubSeq(s, lo, hi)

\* the line of s that starts at position p
LineAt(s, p) ==
    LET ends == {i \in p..Len(s) : s[i] = "\n"} \cup {Len(s) + 1}
        e == CHOOSE i \in ends : \A j \in ends : i <= j
    IN  SubSeq(s, p, e - 1)

\* the start positions of the non-blank lines of s
NonBlankStarts(s) ==
    {p \in {1} \cup {i + 1 : i \in {j \in 1..Len(s) : s[j] = "\n"}} :
        NonBlank(LineAt(s, p))}

\* the first up-to-3 non-blank lines of s, trimmed, in order; the
\* placeholder if there is none
ExpectedQuestions(s) ==
    LET starts == NonBlankStarts(s)
        nth(k) == CHOOSE p \in starts : Cardinality({q \in starts : q < p}) = k - 1
    IN  IF starts = {} THEN <<Placeholder>>
        ELSE [k \in 1..Min(3, Cardinality(starts)) |-> Trimmed(LineAt(s, nth(k)))]

\* p is a prefix of the text t
IsPrefix(p, t) ==
    \/ p = <<>>
    \/ /\ Len(p) <= Len(t)
       /\ \A i \in 1..(Len(p) - 1) : p[i] = t[i]
       /\ p[Len(p)].k = t[Len(p)].k
       /\ p[Len(p)].n <= t[Len(p)].n
       /\ p[Len(p)].n >= 1

\* the last run generated questions / evaluated the answers
Generated == output # <<>>
Evaluated == qaCalls # <<>> /\ qaCalls[1].kind = "eval"

-----------------------------------------------------------------------------
(* C1 *)

\* C1: after a Generate Questions action completes, every answer slot holds
\* the empty string and there are as many slots as questions, at most 3.
C1_AnswersEmptyAfterGenerate ==
    Generated =>
        /\ Len(user_answers) = Len(questions)
        /\ Len(questions) <= 3
        /\ \A i \in 1..Len(user_answers) : user_answers[i] = <<>>

-----------------------------------------------------------------------------
(* C2 *)

\* C2: once the quiz state is initialized, the question sequence and the
\* answer sequence have the same length.
C2_SameLength == initialized => Len(questions) = Len(user_answers)

C2_Witness ==
    /\ initialized
    /\ Evaluated
    /\ Len(questions) = 3
    /\ \A i \in 1..3 : user_answers[i] = <<"a">>

-----------------------------------------------------------------------------
(* C3 *)

AllSlotsNonBlank == \A i \in 1..Len(user_answers) : NonBlank(user_answers[i])

\* C3 as stated: Evaluate is offered if and only if all current answer slots
\* are non-empty after trimming.
C3_OfferedIffAllAnswered == initialized => (evalOffered <=> AllSlotsNonBlank)

\* C3 as amended: Evaluate is offered if and only if the last run reached
\* the answer inputs (it rendered the quiz section and question generation
\* did not raise), the question sequence is non-empty and all answer slots
\* are non-empty after trimming; an evaluation call of qa_pipeline is made
\* only for such answers.
C3_EvaluateGate ==
    /\ evalOffered <=> /\ genOffered
                       /\ aborted # "generate"
                       /\ questions # <<>>
                       /\ AllSlotsNonBlank
    /\ Evaluated => evalOffered /\ AllSlotsNonBlank
    /\ \A i \in 1..Len(qaCalls) :
          qaCalls[i].kind = "eval" => NonBlank(qaCalls[i].answer)

C3_Witness ==
    /\ Evaluated
    /\ Len(qaCalls) = 3
    /\ aborted = "none"

-----------------------------------------------------------------------------
(* C4 *)

\* C4: Generate sets the questions to the first up-to-3 non-blank lines of
\* the generated text, trimmed and in order, or to the one placeholder
\* question if there is no such line; so there are 1 to 3 questions, none
\* blank, and on the first generation as many empty answer slots.
C4_QuestionsFromOutput ==
    Generated =>
        /\ questions = ExpectedQuestions(output[1])
        /\ Len(questions) \in 1..3
        /\ \A i \in 1..Len(questions) : questions[i] # <<>>
        /\ user_answers = [i \in 1..Len(questions) |-> <<>>]
        /\ output[1] = <<"a", "\n", "b", "\n">> =>
              questions = << <<"a">>, <<"b">> >>

C4_Witness ==
    /\ Generated
    /\ Cardinality(NonBlankStarts(output[1])) = 4
    /\ Len(questions) = 3

-----------------------------------------------------------------------------
(* C5 *)

\* C5: a summarization pass on n chunks calls summarizer on chunks
\* 1..min(n, 5) in order and on no other chunk; a pass that no call ends
\* early makes exactly min(n, 5) calls and writes min(n, 5) entries
\* labelled 1..min(n, 5) in chunk order.
C5_FirstFiveChunks ==
    LET n == Len(text_chunks)
        m == IF n <= 5 THEN n ELSE 5
    IN  /\ Len(summCalls) <= m
        /\ \A i \in 1..Len(summCalls) : summCalls[i] = text_chunks[i]
        /\ summary_shown =>
              /\ Len(summCalls) = m
              /\ Len(combined_summary) = m
              /\ \A i \in 1..m : /\ combined_summary[i].label = i
                                 /\ combined_summary[i].chunk = text_chunks[i]

C5_Witness ==
    /\ summary_shown
    /\ Len(text_chunks) > 5
    /\ Len(summCalls) = 5
    /\ combined_summary[5].label = 5

-----------------------------------------------------------------------------
(* C6 *)

\* C6 as stated: in a run where summarizing a chunk fails, the
\* question-answering section and the quiz section are still processed.
C6_OtherSectionsProcessed == aborted = "summarize" => askOffered /\ genOffered

\* C6 as amended: a failure of summarizer ends the run: the
\* question-answering and quiz sections are not processed, no qa_pipeline
\* or question_generator call is made, and the quiz state is unchanged.
C6_FailureEndsRun ==
    [][aborted' = "summarize" =>
          /\ ~summary_shown' /\ ~askOffered' /\ ~genOffered'
          /\ ansShown' = 0 /\ ~evalOffered'
          /\ qaCalls' = <<>> /\ genCalls' = <<>>
          /\ questions' = questions
          /\ user_answers' = user_answers
          /\ initialized' = initialized]_vars

C6_Witness ==
    /\ aborted = "summarize"
    /\ Len(questions) = 3
    /\ \A i \in 1..Len(user_answers) : user_answers[i] = <<"a">>

-----------------------------------------------------------------------------
(* C7 *)

-----------------------------------------------------------------------------
(* C8 *)

\* C8: every qa_pipeline call, from Get Answer or from Evaluate, gets as
\* context the prefix of the current document of length
\* min(len(document), 2000).
C8_ContextIsPrefix ==
    \A i \in 1..Len(qaCalls) :
        /\ IsPrefix(qaCalls[i].context, document_text)
        /\ TextLen(qaCalls[i].context) =
              (IF TextLen(document_text) <= 2000 THEN TextLen(document_text) ELSE 2000)
        /\ TextLen(qaCalls[i].context) <= 2000

C8_Witness ==
    /\ Evaluated
    /\ Len(qaCalls) = 3
    /\ TextLen(document_text) > 2000
    /\ TextLen(qaCalls[3].context) = 2000
    /\ quiz_source # document_text

-----------------------------------------------------------------------------
(* C9 *)

\* C9: with an uploaded file whose type is neither PDF nor plain text, the
\* document text is empty, no error is raised, no section is rendered and
\* no capability is called.
C9_UnsupportedType ==
    (uploaded_file # NoFile
        /\ uploaded_file.type \notin {"application/pdf", "text/plain"}) =>
        /\ document_text = <<>>
        /\ aborted = "none"
        /\ ~summary_shown /\ ~askOffered /\ ~genOffered
        /\ ansShown = 0 /\ ~evalOffered
        /\ summCalls = <<>> /\ qaCalls = <<>> /\ genCalls = <<>>

C9_Witness ==
    /\ uploaded_file.type = "application/json"
    /\ uploaded_file.text # <<>>
    /\ questions # <<>>

-----------------------------------------------------------------------------
(* C10 *)

\* C10: only a run that generates questions changes the question sequence,
\* and a non-empty question sequence never becomes empty.
C10_OnlyGenerateChangesQuestions ==
    [][/\ questions' # questions => (output' # <<>> /\ genCalls' # <<>>)
       /\ questions # <<>> => questions' # <<>>]_vars

\* questions generated from one document are evaluated against the context
\* of another
C10_Witness ==
    /\ Evaluated
    /\ aborted = "none"
    /\ quiz_source # <<>>
    /\ document_text # quiz_source
    /\ \A i \in 1..Len(qaCalls) :
          /\ qaCalls[i].question = questions[i]
          /\ IsPrefix(qaCalls[i].context, document_text)

====
